---- MODULE Spec2Model ----
(***************************************************************************)
(* A model of scripts/secret_scan.py, the OpenCone release-gate secret     *)
(* scanner: the traversal (iter_candidate_files), the matcher (scan_file)  *)
(* and the command line driver (main).                                     *)
(*                                                                         *)
(* A text is a sequence of characters, each character a one-character      *)
(* string.  A path is a text too: its components are separated by the      *)
(* character "/", and a name of several letters may be written with one    *)
(* string per syllable ("build", "x") where its spelling does not matter.  *)
(*                                                                         *)
(* Three specifications: Spec is one run of main() over a tree of files;   *)
(* SpecTwice is a run followed by a second run on the same tree; SpecMatch *)
(* is scan_file's matching loop on one text.  What main() prints is not    *)
(* modelled: it changes no state and no return value.                      *)
(***************************************************************************)
EXTENDS Integers, Sequences, FiniteSets

VARIABLES
    pc,         \* main()'s position: "start", "validating-root", "scanning", or a
                \* terminal state "error", "findings-found", "clean"; in a matcher
                \* run, scan_file's: "scan_file" or "returned"
    rootKind,   \* what args.path resolves to: "missing", "file" or "dir"
    exclude,    \* args.exclude, the --exclude values
    tree,       \* the regular files under the root (unchanged by the scan)
    pending,    \* entries root.rglob("*") has not produced yet
    candidate,  \* the path iter_candidate_files has yielded to main's loop, or NoPath
    findings,   \* main()'s findings list
    exitCode,   \* main()'s return value, or NoCode while it runs
    walked,     \* entries rglob has produced in this run            (history)
    yielded,    \* paths iter_candidate_files has yielded, in order   (history)
    scanned,    \* paths scan_file has tried to read                  (history)
    run,        \* which run of the program this is (1 or 2)
    first,      \* the first run's result, once a second run has started
    text,       \* matcher run: the decoded text of the file being scanned
    k,          \* matcher run: index of the next pattern of _PATTERNS
    matches     \* matcher run: scan_file's matches list

vars == <<pc, rootKind, exclude, tree, pending, candidate, findings, exitCode,
          walked, yielded, scanned, run, first, text, k, matches>>

\* ------------------------------------------------------------------ bounds

\* Most files in the tree.
MaxFiles == 2
\* Most --exclude values on the command line.
MaxExcludes == 1
\* Longest separator between "bearer" and its token in the matcher's inputs.
MaxSep == 2

\* --------------------------------------------------------------- characters

Lower == {"a", "b", "c", "e", "j", "k", "o", "p", "r", "s", "x", "z"}
Upper == {"A", "B", "E", "K", "R", "S", "Z"}
Digit == {"0", "9"}
AsciiAlnum == Lower \cup Upper \cup Digit

\* str.lower() on the characters of the model's alphabet.
ToLower(c) ==
    CASE c = "A" -> "a"
      [] c = "B" -> "b"
      [] c = "E" -> "e"
      [] c = "K" -> "k"
      [] c = "R" -> "r"
      [] c = "S" -> "s"
      [] c = "Z" -> "z"
      [] OTHER -> c

\* What \s matches: the space, the tab, the line feed (and the other
\* whitespace characters, of which the model's alphabet has none).
Whitespace == {" ", "\t", "\n"}

\* Non-ASCII letters that a case-insensitive [A-Za-z] also matches, because
\* they case-fold to an ASCII letter: U+017F (long s) stands for them.
FoldsToAscii == {"U+017F"}

\* The characters a regex character class matches.
ClassChars(cls) ==
    CASE cls = "alnum" -> AsciiAlnum                    \* [A-Za-z0-9]
      [] cls = "token" -> AsciiAlnum \cup {"-", "_"}    \* [A-Za-z0-9-_]

\* The characters a separator may consist of: "none" for a pattern without
\* one, "ws" for \s.  "space" (the space character alone) is used by no
\* pattern of the program.
SepChars(sep) ==
    CASE sep = "none"  -> {}
      [] sep = "ws"    -> Whitespace
      [] sep = "space" -> {" "}

\* {20,}: the shortest run of class characters a pattern accepts.
MinRun == 20

\* 2 * 1024 * 1024: the largest st_size iter_candidate_files still yields.
MaxSize == 2 * 1024 * 1024

\* ---------------------------------------------------------------- patterns

Bearer == <<"b", "e", "a", "r", "e", "r">>

\* A bearer rule whose separator is one or more space characters only.
BearerSpacesOnly ==
    [label |-> "Generic bearer token", lit |-> Bearer,
     sep |-> "space", cls |-> "token", icase |-> TRUE]

GenericBearer ==
    [label |-> "Generic bearer token", lit |-> Bearer,
     sep |-> "ws", cls |-> "token", icase |-> TRUE]

\* The pattern list with the bearer rule's \s+ narrowed to spaces.
PatternsSpacesOnly ==
    << [label |-> "OpenAI secret", lit |-> <<"s", "k", "-">>,
        sep |-> "none", cls |-> "alnum", icase |-> FALSE],
       [label |-> "OpenAI project token", lit |-> <<"p", "r", "o", "j", "-">>,
        sep |-> "none", cls |-> "alnum", icase |-> FALSE],
       [label |-> "Pinecone server key", lit |-> <<"p", "c", "s", "k", "_">>,
        sep |-> "none", cls |-> "alnum", icase |-> FALSE],
       BearerSpacesOnly >>

\* The pattern list with the Pinecone server key and the OpenAI project token swapped.
PatternsSwapped ==
    << [label |-> "OpenAI secret", lit |-> <<"s", "k", "-">>,
        sep |-> "none", cls |-> "alnum", icase |-> FALSE],
       [label |-> "Pinecone server key", lit |-> <<"p", "c", "s", "k", "_">>,
        sep |-> "none", cls |-> "alnum", icase |-> FALSE],
       [label |-> "OpenAI project token", lit |-> <<"p", "r", "o", "j", "-">>,
        sep |-> "none", cls |-> "alnum", icase |-> FALSE],
       GenericBearer >>

\* _PATTERNS: sk-[A-Za-z0-9]{20,}, proj-[A-Za-z0-9]{20,}, pcsk_[A-Za-z0-9]{20,}
\* and bearer\s+[A-Za-z0-9-_]{20,} with re.IGNORECASE.
_PATTERNS ==
    << [label |-> "OpenAI secret", lit |-> <<"s", "k", "-">>,
        sep |-> "none", cls |-> "alnum", icase |-> FALSE],
       [label |-> "OpenAI project token", lit |-> <<"p", "r", "o", "j", "-">>,
        sep |-> "none", cls |-> "alnum", icase |-> FALSE],
       [label |-> "Pinecone server key", lit |-> <<"p", "c", "s", "k", "_">>,
        sep |-> "none", cls |-> "alnum", icase |-> FALSE],
       GenericBearer >>

\* ----------------------------------------------------------------- matcher

\* Whether pattern character l matches text character c.
CharEq(icase, l, c) == IF icase THEN ToLower(c) = ToLower(l) ELSE c = l

\* Whether p's character class matches c.
InClass(p, c) ==
    \/ c \in ClassChars(p.cls)
    \/ p.icase /\ c \in FoldsToAscii

\* The first index at or after i whose character is not a separator character of p.
RECURSIVE SepRun(_, _, _)
SepRun(p, t, i) ==
    IF i <= Len(t) /\ t[i] \in SepChars(p.sep) THEN SepRun(p, t, i + 1) ELSE i

\* The first index at or after i whose character is not in p's class.
RECURSIVE ClassRun(_, _, _)
ClassRun(p, t, i) ==
    IF i <= Len(t) /\ InClass(p, t[i]) THEN ClassRun(p, t, i + 1) ELSE i

\* regex.match at position i: the index one past the (greedy) match, or 0
\* when p does not match there.
MatchEnd(p, t, i) ==
    LET n == Len(p.lit)
        litOK == /\ i + n - 1 <= Len(t)
                 /\ \A m \in 1..n : CharEq(p.icase, p.lit[m], t[i + m - 1])
        j == i + n
        s == IF p.sep = "none" THEN j ELSE SepRun(p, t, j)
        e == ClassRun(p, t, s)
    IN  IF litOK /\ (p.sep = "none" \/ s > j) /\ e - s >= MinRun THEN e ELSE 0

\* regex.finditer(text) from position i on: the non-overlapping matches,
\* leftmost first.  pos is match.start(), which scan_file does not keep; the
\* model carries it along to state where a finding was found.
RECURSIVE finditer(_, _, _)
finditer(p, t, i) ==
    IF i > Len(t) THEN <<>>
    ELSE LET e == MatchEnd(p, t, i)
         IN  IF e > 0
             THEN <<[label |-> p.label, snippet |-> SubSeq(t, i, e - 1), pos |-> i]>>
                  \o finditer(p, t, e)
             ELSE finditer(p, t, i + 1)

\* The matches of the patterns from the n-th on, pattern after pattern.
RECURSIVE ScanFrom(_, _, _)
ScanFrom(patterns, t, n) ==
    IF n > Len(patterns) THEN <<>>
    ELSE finditer(patterns[n], t, 1) \o ScanFrom(patterns, t, n + 1)

\* The loop that returns at the first pattern with a match.
scan_stops_at_first(t) ==
    LET hits == {n \in 1..Len(_PATTERNS) : finditer(_PATTERNS[n], t, 1) # <<>>}
    IN  IF hits = {} THEN <<>>
        ELSE finditer(_PATTERNS[CHOOSE n \in hits : \A m \in hits : n <= m], t, 1)

\* scan_file's loop over _PATTERNS on the text it has read.
scan_text(t) == ScanFrom(_PATTERNS, t, 1)

\* ------------------------------------------------------- the matcher's inputs

\* n times the character c.
Rep(c, n) == [i \in 1..n |-> c]

\* The sequences over S of length at most n.
RECURSIVE SeqsUpTo(_, _)
SeqsUpTo(S, n) ==
    IF n = 0 THEN {<<>>}
    ELSE LET shorter == SeqsUpTo(S, n - 1)
         IN  shorter \cup {Append(s, c) : s \in {x \in shorter : Len(x) = n - 1}, c \in S}

\* How a text may begin: a pattern's literal, in some letter case, or a near miss.
Words ==
    { <<"s", "k", "-">>, <<"S", "K", "-">>, <<"s", "k", "_">>,
      <<"p", "r", "o", "j", "-">>, <<"p", "c", "s", "k", "_">>,
      Bearer, <<"B", "e", "a", "r", "e", "r">>, <<"B", "E", "A", "R", "E", "R">>,
      <<"b", "e", "a", "r">> }

\* What may stand between the word and the run that follows it.
Seps == SeqsUpTo({" ", "\t", "\n", "."}, MaxSep)

\* The run that follows: one short of the minimum, the minimum, one more.
Bodies ==
    { Rep(c, n) : c \in {"a", "9", "-", "U+017F"}, n \in {MinRun - 1, MinRun, MinRun + 1} }
    \cup { Rep("a", MinRun - 1) \o <<"_">> \o Rep("Z", MinRun) }

\* Texts with several matches, of one pattern and of several.
TwoSecrets ==
    <<"s", "k", "-">> \o Rep("A", MinRun) \o <<" ">>
        \o <<"s", "k", "-">> \o Rep("B", MinRun + 1)
BearerSecret ==
    <<"B", "e", "a", "r", "e", "r", " ", "s", "k", "-">> \o Rep("A", MinRun)
PineconeThenProject ==
    <<"p", "c", "s", "k", "_">> \o Rep("0", MinRun) \o <<"\n">>
        \o <<"p", "r", "o", "j", "-">> \o Rep("9", MinRun)
BearerOnly ==
    <<"B", "E", "A", "R", "E", "R", "\t", "\n">> \o Rep("a", MinRun - 1) \o <<"_", "-">>
NearMisses ==
    <<"s", "k", "-">> \o Rep("A", MinRun - 1) \o <<"\n">> \o Bearer \o Rep("a", MinRun)

TreeTexts == {TwoSecrets, BearerSecret, PineconeThenProject, BearerOnly, NearMisses}

Texts ==
    { lead \o w \o s \o b : lead \in {<<>>, <<"a">>}, w \in Words, s \in Seps, b \in Bodies }
    \cup TreeTexts

\* -------------------------------------------------------------------- paths

\* _DEFAULT_IGNORES.  The last member holds a path separator.
_DEFAULT_IGNORES ==
    { <<".git">>, <<".github">>, <<"DerivedData">>, <<"build">>,
      <<"node_modules">>, <<"Pods">>, <<"scripts", "/", "__pycache__">> }

\* The index of the first separator of s, or Len(s) + 1 when it has none.
RECURSIVE FirstSep(_, _)
FirstSep(s, i) == IF i > Len(s) \/ s[i] = "/" THEN i ELSE FirstSep(s, i + 1)

\* PurePath.parts of a relative path: its components, split on the separator.
RECURSIVE parts(_)
parts(rel) ==
    IF rel = <<>> THEN <<>>
    ELSE LET i == FirstSep(rel, 1)
         IN  <<SubSeq(rel, 1, i - 1)>> \o parts(SubSeq(rel, i + 1, Len(rel)))

\* The ignore set without the --exclude values.
ignore_defaults_only(extra_ignores) == _DEFAULT_IGNORES

\* The ignore set of a run: the defaults and every --exclude value.
ignore_prefixes(extra_ignores) == _DEFAULT_IGNORES \cup extra_ignores

\* The ignore test on the relative path as a string: some member is a prefix of it.
is_ignored_by_prefix(rel, ignores) ==
    \E m \in ignores : Len(m) <= Len(rel) /\ SubSeq(rel, 1, Len(m)) = m

\* any(part in ignore_prefixes for part in relative.parts)
is_ignored(rel, ignores) == \E i \in 1..Len(parts(rel)) : parts(rel)[i] \in ignores

\* ----------------------------------------------------------- the file system

\* No path: no candidate in hand, and the root as a path relative to itself.
NoPath == <<>>
\* main() has not returned.
NoCode == -1
NoRun == [findings |-> <<>>, exitCode |-> NoCode, yielded |-> <<>>]

\* The files a tree may hold: a path relative to the root and the decoded text.
Universe ==
    { [path |-> <<"a.txt">>,                                    text |-> TwoSecrets],
      [path |-> <<"build", "/", "k.txt">>,                      text |-> BearerSecret],
      [path |-> <<"scripts", "/", "__pycache__", "/", "c.pyc">>, text |-> PineconeThenProject],
      [path |-> <<"vendor", "/", "lib", "/", "t.txt">>,         text |-> BearerOnly],
      [path |-> <<"build", "x", "/", "n.txt">>,                 text |-> BearerSecret],
      [path |-> <<".git">>,                                     text |-> TwoSecrets],
      [path |-> <<"docs", "/", "clean.txt">>,                   text |-> NearMisses] }

\* What stat() and read_text() do to a file of text t.  A file is its text
\* followed by line feeds, which no pattern can end in, up to st_size bytes.
\* A file whose stat() fails or whose size is over the limit is never read,
\* so its readability is fixed.
IOStates(t) ==
    { [statOK |-> TRUE,  size |-> Len(t),      readable |-> TRUE],
      [statOK |-> TRUE,  size |-> Len(t),      readable |-> FALSE],
      [statOK |-> TRUE,  size |-> MaxSize,     readable |-> TRUE],
      [statOK |-> TRUE,  size |-> MaxSize + 1, readable |-> TRUE],
      [statOK |-> FALSE, size |-> Len(t),      readable |-> TRUE] }

Files ==
    UNION { { [path |-> u.path, text |-> u.text, statOK |-> io.statOK,
               size |-> io.size, readable |-> io.readable] : io \in IOStates(u.text) }
            : u \in Universe }

\* The trees of at most n files, no two at one path.
RECURSIVE TreesUpTo(_)
TreesUpTo(n) ==
    IF n = 0 THEN {{}}
    ELSE LET smaller == TreesUpTo(n - 1)
         IN  smaller \cup
             UNION { { t \cup {f} : f \in {g \in Files : \A h \in t : h.path # g.path} }
                     : t \in smaller }

Trees == TreesUpTo(MaxFiles)

\* The values --exclude may be given: a directory name, a path of two components.
ExcludeNames == { <<"vendor">>, <<"vendor", "/", "lib">> }

Excludes == { e \in SUBSET ExcludeNames : Cardinality(e) <= MaxExcludes }

FilePaths(t) == {f.path : f \in t}

\* The directories of a tree: every proper prefix of a file's path that ends
\* before a separator.
DirPaths(t) ==
    UNION { { SubSeq(f.path, 1, i - 1) : i \in {j \in 1..Len(f.path) : f.path[j] = "/"} }
            : f \in t }

\* What root.rglob("*") produces: every file and directory under the root.
rglob(t) == FilePaths(t) \cup DirPaths(t)

\* The index of the last separator of path, or 0 when it has none.
RECURSIVE LastSep(_, _)
LastSep(path, i) == IF i = 0 \/ path[i] = "/" THEN i ELSE LastSep(path, i - 1)

\* The directory an entry is in; NoPath stands for the root.
Parent(path) == SubSeq(path, 1, LastSep(path, Len(path)) - 1)

FileAt(t, path) == CHOOSE f \in t : f.path = path

\* --------------------------------------------------------------- traversal

\* path.is_file()
is_file(t, path) == path \in FilePaths(t)

\* The size test with the limit off by one.
size_ok_strict(f) == f.statOK /\ f.size < MaxSize

\* try: path.stat().st_size > 2 * 1024 * 1024 -> continue; except OSError: continue
size_ok(f) == f.statOK /\ f.size <= MaxSize

\* Whether iter_candidate_files yields the entry rglob produced at path.
passes_filters(t, path, extra_ignores) ==
    /\ is_file(t, path)
    /\ ~is_ignored(path, ignore_prefixes(extra_ignores))
    /\ size_ok(FileAt(t, path))

\* scan_file that lets a failed read count as a match.
scan_file_noisy(f) ==
    IF ~f.readable THEN <<[label |-> "OpenAI secret", snippet |-> <<>>, pos |-> 1]>>
    ELSE scan_text(f.text)

\* scan_file: no findings when read_text raises OSError, else the matches.
scan_file(f) == IF ~f.readable THEN <<>> ELSE scan_text(f.text)

\* scan_file of every text a tree's file may hold, computed once.
ScanResult ==
    [f \in Files |-> scan_file(f)]

\* The findings main() appends for one candidate.
FindingsOf(t, path) ==
    LET ms == ScanResult[FileAt(t, path)]
    IN  [i \in 1..Len(ms) |->
            [path |-> path, label |-> ms[i].label, snippet |-> ms[i].snippet,
             pos |-> ms[i].pos]]

\* findings that keeps the first file's matches only.
collect_first(found, new) == IF found # <<>> THEN found ELSE new

\* main()'s inner loop: findings.append for every match of the candidate.
collect(found, new) == found \o new

\* ------------------------------------------------------------------ actions

Terminal == {"error", "findings-found", "clean"}

Init ==
    /\ pc = "start"
    /\ rootKind \in {"missing", "file", "dir"}
    /\ exclude \in Excludes
    /\ tree \in Trees
    /\ rootKind # "dir" => tree = {}
    /\ pending = {}
    /\ candidate = NoPath
    /\ findings = <<>>
    /\ exitCode = NoCode
    /\ walked = {}
    /\ yielded = <<>>
    /\ scanned = {}
    /\ run = 1
    /\ first = NoRun
    /\ text = <<>>
    /\ k = 0
    /\ matches = <<>>

\* parser.parse_args()
ParseArgs ==
    /\ pc = "start"
    /\ pc' = "validating-root"
    /\ UNCHANGED <<rootKind, exclude, tree, pending, candidate, findings, exitCode,
                   walked, yielded, scanned, run, first, text, k, matches>>

\* The root check that goes on to scan whatever the root is.
validate_root_unchecked ==
    /\ pc = "validating-root"
    /\ pc' = "scanning"
    /\ pending' = rglob(tree)
    /\ findings' = <<>>
    /\ UNCHANGED <<rootKind, exclude, tree, candidate, exitCode,
                   walked, yielded, scanned, run, first, text, k, matches>>

\* root = Path(args.path).resolve(); if not root.exists(): return 2.
\* Otherwise findings = [] and the loop over iter_candidate_files starts.
ValidateRoot ==
    /\ pc = "validating-root"
    /\ IF rootKind = "missing"
       THEN /\ pc' = "error"
            /\ exitCode' = 2
            /\ UNCHANGED <<pending, findings>>
       ELSE /\ pc' = "scanning"
            /\ pending' = rglob(tree)
            /\ findings' = <<>>
            /\ UNCHANGED exitCode
    /\ UNCHANGED <<rootKind, exclude, tree, candidate,
                   walked, yielded, scanned, run, first, text, k, matches>>

\* One turn of iter_candidate_files' loop: rglob produces an entry and the
\* entry is skipped or yielded.  rglob walks top-down, a directory before
\* what it holds; the order within a directory is os.scandir's, which is
\* arbitrary and which the program does not sort.
Traverse ==
    /\ pc = "scanning"
    /\ candidate = NoPath
    /\ \E path \in pending :
        /\ Parent(path) \in walked \cup {NoPath}
        /\ pending' = pending \ {path}
        /\ walked' = walked \cup {path}
        /\ IF passes_filters(tree, path, exclude)
           THEN candidate' = path /\ yielded' = Append(yielded, path)
           ELSE UNCHANGED <<candidate, yielded>>
    /\ UNCHANGED <<pc, rootKind, exclude, tree, findings, exitCode,
                   scanned, run, first, text, k, matches>>

\* The body of main()'s loop: scan_file(candidate), every match appended.
ScanCandidate ==
    /\ pc = "scanning"
    /\ candidate # NoPath
    /\ findings' = collect(findings, FindingsOf(tree, candidate))
    /\ scanned' = scanned \cup {candidate}
    /\ candidate' = NoPath
    /\ UNCHANGED <<pc, rootKind, exclude, tree, pending, exitCode,
                   walked, yielded, run, first, text, k, matches>>

\* The report that returns 0 whatever was found.
report_always_clean ==
    /\ pc = "scanning"
    /\ candidate = NoPath
    /\ pending = {}
    /\ pc' = "clean"
    /\ exitCode' = 0
    /\ UNCHANGED <<rootKind, exclude, tree, pending, candidate, findings,
                   walked, yielded, scanned, run, first, text, k, matches>>

\* The loop is over: if findings: ... return 1; else: ... return 0.
Report ==
    /\ pc = "scanning"
    /\ candidate = NoPath
    /\ pending = {}
    /\ IF findings # <<>>
       THEN pc' = "findings-found" /\ exitCode' = 1
       ELSE pc' = "clean" /\ exitCode' = 0
    /\ UNCHANGED <<rootKind, exclude, tree, pending, candidate, findings,
                   walked, yielded, scanned, run, first, text, k, matches>>

Next == ParseArgs \/ ValidateRoot \/ Traverse \/ ScanCandidate \/ Report

Spec == Init /\ [][Next]_vars

\* A second run of the program with the same arguments on the same tree: a
\* new process, which shares nothing with the first but the file system.
Rerun ==
    /\ pc \in Terminal
    /\ run = 1
    /\ run' = 2
    /\ first' = [findings |-> findings, exitCode |-> exitCode, yielded |-> yielded]
    /\ pc' = "start"
    /\ pending' = {}
    /\ candidate' = NoPath
    /\ findings' = <<>>
    /\ exitCode' = NoCode
    /\ walked' = {}
    /\ yielded' = <<>>
    /\ scanned' = {}
    /\ UNCHANGED <<rootKind, exclude, tree, text, k, matches>>

NextTwice == Next \/ Rerun

SpecTwice == Init /\ [][NextTwice]_vars

\* ------------------------------------------------------------ matcher run

\* scan_file on its own, one pattern of the list at a time, on a text that
\* read_text has returned.
InitMatch ==
    /\ pc = "scan_file"
    /\ text \in Texts
    /\ k = 1
    /\ matches = <<>>
    /\ rootKind = "dir"
    /\ exclude = {}
    /\ tree = {}
    /\ pending = {}
    /\ candidate = NoPath
    /\ findings = <<>>
    /\ exitCode = NoCode
    /\ walked = {}
    /\ yielded = <<>>
    /\ scanned = {}
    /\ run = 1
    /\ first = NoRun

\* for match in regex.finditer(text): matches.append((label, snippet)),
\* for the k-th pattern of the list.
MatchPattern ==
    /\ pc = "scan_file"
    /\ k <= Len(_PATTERNS)
    /\ matches' = matches \o finditer(_PATTERNS[k], text, 1)
    /\ k' = k + 1
    /\ UNCHANGED <<pc, rootKind, exclude, tree, pending, candidate, findings, exitCode,
                   walked, yielded, scanned, run, first, text>>

\* return matches
ReturnMatches ==
    /\ pc = "scan_file"
    /\ k > Len(_PATTERNS)
    /\ pc' = "returned"
    /\ UNCHANGED <<rootKind, exclude, tree, pending, candidate, findings, exitCode,
                   walked, yielded, scanned, run, first, text, k, matches>>

NextMatch == MatchPattern \/ ReturnMatches

SpecMatch == InitMatch /\ [][NextMatch]_vars

\* ------------------------------------------------- what the claims speak of

Range(s) == {s[i] : i \in 1..Len(s)}

\* The findings reported for one path, in the order reported.
Restrict(found, path) == SelectSeq(found, LAMBDA x : x.path = path)

Reported(path) == \E i \in 1..Len(findings) : findings[i].path = path

\* Some component of path (a stretch between separators, the file name
\* included) is a member of ignores.
HasIgnoredComponent(path, ignores) ==
    \E i, j \in 1..Len(path) :
        /\ i <= j
        /\ i = 1 \/ path[i - 1] = "/"
        /\ j = Len(path) \/ path[j + 1] = "/"
        /\ \A m \in i..j : path[m] # "/"
        /\ SubSeq(path, i, j) \in ignores

\* s, as a whole, is a match of pattern p: the literal, the separator (one
\* or more of its characters, or none for a pattern without one), then
\* MinRun or more characters of the class.
FullMatch(p, s) ==
    LET n == Len(p.lit)
    IN  /\ Len(s) >= n + MinRun
        /\ \A m \in 1..n : CharEq(p.icase, p.lit[m], s[m])
        /\ \E c \in n..(Len(s) - MinRun) :
            /\ (p.sep = "none") <=> (c = n)
            /\ \A m \in (n + 1)..c : s[m] \in SepChars(p.sep)
            /\ \A m \in (c + 1)..Len(s) : InClass(p, s[m])

\* t contains a substring that matches p.
ContainsMatch(p, t) ==
    \E i \in 1..Len(t) : \E j \in i..Len(t) : FullMatch(p, SubSeq(t, i, j))

Healthy(f) == f.statOK /\ f.size <= MaxSize /\ f.readable

\* The patterns, by their place in the list, that a text contains a match
\* of, for each text a file of the tree may hold.
PatternsIn ==
    [t \in TreeTexts |-> {n \in 1..Len(_PATTERNS) : ContainsMatch(_PATTERNS[n], t)}]

\* The matches of each of these texts when it is scanned.
MatchesIn ==
    [t \in TreeTexts |-> scan_text(t)]

\* The run's ignore set, as the command line and the defaults give it.
RunIgnores == _DEFAULT_IGNORES \cup exclude

\* ------------------------------------------------------------------- claims

\* C1: a run that has returned has returned 0, 1 or 2: 0 exactly when the
\* findings list is empty and the root exists, 1 exactly when the list has
\* an entry, 2 exactly when the root does not exist; and a run that has not
\* returned yet can always take its next step towards returning.
ExitCodeContract ==
    /\ pc \in Terminal =>
        /\ exitCode \in {0, 1, 2}
        /\ (exitCode = 0) <=> (findings = <<>> /\ rootKind # "missing")
        /\ (exitCode = 1) <=> (findings # <<>>)
        /\ (exitCode = 2) <=> (rootKind = "missing")
    /\ pc \notin Terminal => exitCode = NoCode /\ ENABLED Next

\* C1's case: a run over an existing root has ended with several findings and code 1.
ExitCodeWitness ==
    /\ pc = "findings-found"
    /\ exitCode = 1
    /\ rootKind = "dir"
    /\ Len(findings) > 1

\* C2: a file with a component (a directory name or its own name) in the
\* ignore set, the defaults or an --exclude value, is never yielded and never
\* appears in the findings, whatever it holds.
IgnoredNeverReported ==
    \A f \in tree :
        HasIgnoredComponent(f.path, RunIgnores) =>
            /\ f.path \notin Range(yielded)
            /\ f.path # candidate
            /\ f.path \notin scanned
            /\ ~Reported(f.path)

\* C2's case: the run is over and clean although rglob produced a readable
\* file of ordinary size that holds a secret, under a directory that only
\* an --exclude value ignores, and another that has an ignored name itself.
IgnoredWitness ==
    /\ pc = "clean"
    /\ \E f, g \in tree :
        /\ f.path \in walked /\ g.path \in walked
        /\ Healthy(f) /\ Healthy(g)
        /\ HasIgnoredComponent(f.path, exclude)
        /\ ~HasIgnoredComponent(f.path, _DEFAULT_IGNORES)
        /\ PatternsIn[f.text] # {}
        /\ g.path \in _DEFAULT_IGNORES
        /\ PatternsIn[g.text] # {}

\* C3: a regular file with no ignored component that rglob has produced is
\* yielded exactly when its size can be read and is at most 2,097,152; a
\* file of 2,097,153 bytes or more is never reported, and a file of exactly
\* 2,097,152 bytes has been scanned when the run ends.
SizeCutoff ==
    \A f \in tree :
        (f.path \in walked /\ ~HasIgnoredComponent(f.path, RunIgnores)) =>
            /\ (f.path \in Range(yielded)) <=> (f.statOK /\ f.size <= 2097152)
            /\ f.size >= 2097153 => ~Reported(f.path) /\ f.path \notin scanned
            /\ (pc \in Terminal /\ f.statOK /\ f.size = 2097152) => f.path \in scanned

\* C3's case: the run is over; a file of 2,097,152 bytes was scanned and
\* reported, a file of 2,097,153 bytes that holds a secret was produced by
\* rglob and is not reported.
SizeCutoffWitness ==
    /\ pc \in Terminal
    /\ \E f, g \in tree :
        /\ f.size = 2097152 /\ f.path \in scanned /\ Reported(f.path)
        /\ g.size = 2097153 /\ g.statOK /\ g.path \in walked
        /\ ~HasIgnoredComponent(g.path, RunIgnores)
        /\ PatternsIn[g.text] # {}

\* C4 as stated: after a scan of a directory, every file directly in it
\* whose content contains a match of one of the four patterns has a finding
\* with that pattern's label.
EveryMatchReported ==
    (pc \in Terminal /\ rootKind = "dir") =>
        \A f \in tree : \A n \in 1..Len(_PATTERNS) :
            ("/" \notin Range(f.path) /\ n \in PatternsIn[f.text]) =>
                \E i \in 1..Len(findings) :
                    findings[i].path = f.path /\ findings[i].label = _PATTERNS[n].label

\* C4, amended: after a scan, every file under the root that has no
\* ignored component, whose size can be read and is at most 2 MiB, that can
\* be read, and whose content contains a match of one of the four
\* patterns, has a finding with that pattern's label.
EveryScannedMatchReported ==
    (pc \in Terminal /\ rootKind = "dir") =>
        \A f \in tree : \A n \in 1..Len(_PATTERNS) :
            (/\ ~HasIgnoredComponent(f.path, RunIgnores)
             /\ Healthy(f)
             /\ n \in PatternsIn[f.text]) =>
                \E i \in 1..Len(findings) :
                    findings[i].path = f.path /\ findings[i].label = _PATTERNS[n].label

\* C4's case: the run is over and reports, for a file directly in the root
\* and for a file in a directory below it, a label whose pattern the file's
\* content matches.
EveryScannedMatchWitness ==
    /\ pc = "findings-found"
    /\ \E f, g \in tree :
        /\ "/" \notin Range(f.path) /\ "/" \in Range(g.path)
        /\ Healthy(f) /\ Healthy(g)
        /\ Reported(f.path) /\ Reported(g.path)
        /\ 3 \in PatternsIn[g.text]
        /\ \E i \in 1..Len(findings) :
            findings[i].path = g.path /\ findings[i].label = "Pinecone server key"

\* C5: nothing is enumerated or read before the root is validated; a
\* missing root takes the run from validating-root straight to error(2)
\* with no entry enumerated and no file read, and nothing else ends in
\* error; with the root there, validating-root is followed by scanning,
\* scanning ends only in findings-found or clean, and by then every entry
\* has been enumerated and every yielded file scanned.
RootCheckedFirst ==
    /\ [](pc \in {"start", "validating-root"} =>
            walked = {} /\ scanned = {} /\ yielded = <<>> /\ candidate = NoPath)
    /\ [](rootKind = "missing" =>
            /\ pc \in {"start", "validating-root", "error"}
            /\ walked = {} /\ scanned = {} /\ pending = {} /\ findings = <<>>)
    /\ [](rootKind # "missing" => pc # "error" /\ exitCode # 2)
    /\ []((pc \in Terminal /\ rootKind # "missing") =>
            /\ pc \in {"findings-found", "clean"}
            /\ walked = rglob(tree)
            /\ scanned = Range(yielded))
    /\ [][pc = "validating-root" =>
            pc' = IF rootKind = "missing" THEN "error" ELSE "scanning"]_vars
    /\ [][(pc' = "error" /\ pc # "error") =>
            (pc = "validating-root" /\ exitCode' = 2)]_vars
    /\ [][pc = "scanning" => pc' \in {"scanning", "findings-found", "clean"}]_vars

\* C5's case: the run has ended in error(2) on a missing root, nothing
\* enumerated, nothing read.
RootMissingWitness ==
    /\ pc = "error"
    /\ exitCode = 2
    /\ rootKind = "missing"
    /\ walked = {}
    /\ scanned = {}

\* A file whose stat() or read_text() raises OSError.
IOFails(f) == ~f.statOK \/ ~f.readable

\* What the findings of f alone are when f is read.
ExpectedOf(f) ==
    LET ms == MatchesIn[f.text]
    IN  [i \in 1..Len(ms) |->
            [path |-> f.path, label |-> ms[i].label, snippet |-> ms[i].snippet,
             pos |-> ms[i].pos]]

\* C6: when the run over an existing root is over, it has returned 0 or 1;
\* no file whose stat or read fails is reported; and every other file that
\* passes the filters has been scanned and has exactly the findings its
\* own content gives, whatever failed elsewhere.  Until then the scan can
\* always go on.
IOFailuresAreSkips ==
    /\ (pc \in Terminal /\ rootKind = "dir") =>
        /\ exitCode \in {0, 1}
        /\ \A f \in tree : IOFails(f) => ~Reported(f.path)
        /\ \A g \in tree :
            (~IOFails(g) /\ g.size <= MaxSize /\ ~HasIgnoredComponent(g.path, RunIgnores)) =>
                /\ g.path \in scanned
                /\ Restrict(findings, g.path) = ExpectedOf(g)
    /\ pc = "scanning" => ENABLED Next

\* C6's case: the run ended with code 1; a yielded file could not be read
\* and is not reported, another file is reported.
IOFailureWitness ==
    /\ pc = "findings-found"
    /\ exitCode = 1
    /\ \E f, g \in tree :
        /\ ~f.readable /\ f.path \in scanned /\ ~Reported(f.path)
        /\ ~IOFails(g) /\ Reported(g.path)

\* The four labels in the order the claim gives them.
ClaimedOrder ==
    <<"OpenAI secret", "OpenAI project token", "Pinecone server key", "Generic bearer token">>

Rank(label) == CHOOSE i \in 1..Len(ClaimedOrder) : ClaimedOrder[i] = label

\* The scan results of the scanned paths of ys, concatenated in ys's order.
RECURSIVE ConcatScans(_)
ConcatScans(ys) ==
    IF ys = <<>> THEN <<>>
    ELSE (IF Head(ys) \in scanned THEN ExpectedOf(FileAt(tree, Head(ys))) ELSE <<>>)
         \o ConcatScans(Tail(ys))

\* C7: the findings list is the concatenation, in the order the files were
\* yielded, of each scanned file's scan result (an unreadable file's is
\* empty); and of two findings of one file, the one listed first has the
\* earlier label in the order OpenAI secret, OpenAI project token,
\* Pinecone server key, Generic bearer token, or the same label and an
\* earlier match position.
FindingsInOrder ==
    /\ findings = ConcatScans(SelectSeq(yielded, LAMBDA y : FileAt(tree, y).readable))
    /\ \A i, j \in 1..Len(findings) :
        (i < j /\ findings[i].path = findings[j].path) =>
            \/ Rank(findings[i].label) < Rank(findings[j].label)
            \/ /\ findings[i].label = findings[j].label
               /\ findings[i].pos < findings[j].pos

\* C7's case: the run is over with findings of two files, and one file has
\* a match of a later pattern at an earlier offset listed after a match of
\* an earlier pattern.
FindingsInOrderWitness ==
    /\ pc = "findings-found"
    /\ \E i, j \in 1..Len(findings) : findings[i].path # findings[j].path
    /\ \E i, j \in 1..Len(findings) :
        /\ i < j
        /\ findings[i].path = findings[j].path
        /\ Rank(findings[i].label) < Rank(findings[j].label)
        /\ findings[i].pos > findings[j].pos

\* C8 as stated: a second run with the same arguments on the unchanged tree
\* ends with the same sequence of findings and the same exit code as the
\* first, whatever order each of the two traversals takes.
RunsIdentical ==
    (run = 2 /\ pc \in Terminal) =>
        /\ findings = first.findings
        /\ exitCode = first.exitCode

\* C8, amended: the second run ends with the same exit code and the same
\* findings up to the order of the files: as many findings, and for every
\* file the same findings in the same order; the sequences are identical
\* when both runs yield the files in the same order.
RunsAgreeUpToFileOrder ==
    (run = 2 /\ pc \in Terminal) =>
        /\ exitCode = first.exitCode
        /\ Len(findings) = Len(first.findings)
        /\ \A path \in FilePaths(tree) :
            Restrict(findings, path) = Restrict(first.findings, path)
        /\ yielded = first.yielded => findings = first.findings

\* C8's case: the second run is over, it yielded two files with findings in
\* the other order than the first run, and its findings list differs.
RunsAgreeWitness ==
    /\ run = 2
    /\ pc = "findings-found"
    /\ Len(yielded) = 2
    /\ yielded # first.yielded
    /\ findings # first.findings
    /\ Len(findings) = Len(first.findings)

\* s, as a whole, is the word bearer in any letter case, one or more space
\* characters, then MinRun or more characters of [A-Za-z0-9-_].
ClaimedBearerMatch(s) ==
    LET n == Len(Bearer)
    IN  /\ Len(s) >= n + 1 + MinRun
        /\ \A m \in 1..n : ToLower(s[m]) = Bearer[m]
        /\ \E c \in (n + 1)..(Len(s) - MinRun) :
            /\ \A m \in (n + 1)..c : s[m] = " "
            /\ \A m \in (c + 1)..Len(s) : s[m] \in ClassChars("token")

BearerFound == \E i \in 1..Len(matches) : matches[i].label = "Generic bearer token"

\* C9 as stated: scan_file returns a Generic bearer token match exactly
\* when the text contains bearer, in any letter case, one or more spaces
\* and 20 or more characters of [A-Za-z0-9-_]; a separator with a tab or a
\* line break in it gives no such match.
BearerNeedsSpaces ==
    pc = "returned" =>
        (BearerFound <=>
            \E i \in 1..Len(text) : \E j \in i..Len(text) :
                ClaimedBearerMatch(SubSeq(text, i, j)))

\* C9, amended: scan_file returns a Generic bearer token match exactly when
\* the text contains bearer, in any letter case, one or more whitespace
\* characters (a space, a tab, a line break) and 20 or more characters
\* that [A-Za-z0-9-_] matches case-insensitively; and every such match
\* returned is, as a whole, of that form.
BearerTakesWhitespace ==
    pc = "returned" =>
        /\ BearerFound <=> ContainsMatch(GenericBearer, text)
        /\ \A i \in 1..Len(matches) :
            matches[i].label = "Generic bearer token" =>
                FullMatch(GenericBearer, matches[i].snippet)

\* C9's case: scan_file has returned a Generic bearer token match whose
\* separator holds a tab.
BearerWhitespaceWitness ==
    /\ pc = "returned"
    /\ \E i \in 1..Len(matches) :
        /\ matches[i].label = "Generic bearer token"
        /\ "\t" \in Range(matches[i].snippet)

\* The members of the run's ignore set that hold no path separator.
SeparatorFree(ignores) == {m \in ignores : "/" \notin Range(m)}

UnderPycache(path) ==
    /\ Len(path) > 4
    /\ SubSeq(path, 1, 4) = <<"scripts", "/", "__pycache__", "/">>

====
